---- MODULE Spec2Model ----
(***************************************************************************)
(* The LLM gateway of the data-science assistant: the two vendor clients   *)
(* SFAssistClient (src/sfassist_client.py) and SnowflakeCortexClient       *)
(* (src/snowflake_cortex_client.py).  The module models                    *)
(*   - __init__, the constructor (specification SpecConfig),               *)
(*   - _build_payload, the payload builder (specifications SpecBuild and   *)
(*     SpecRebuild),                                                       *)
(*   - ChatCompletion.create with _make_request, the gateway client        *)
(*     (specification SpecCreate for one call, SpecSession for several     *)
(*     calls, SpecReconfigure for calls with reconfigurations between),    *)
(*   - ChatCompletion._simulate_streaming, the streaming emulation         *)
(*     (specification SpecStream).                                         *)
(*                                                                         *)
(* Python values are encoded as follows.                                   *)
(*   - An optional string (str or None) is a tuple: <<>> is None and <<s>> *)
(*     is the string s.                                                    *)
(*   - A text that is split into words is a sequence of symbols: the       *)
(*     symbol " " is one space character, every other symbol is a run of   *)
(*     non-space characters.                                               *)
(*   - A JSON value is a record whose field t is its type tag.             *)
(***************************************************************************)
EXTENDS Naturals, Integers, Sequences, FiniteSets, TLC

VARIABLES
    config,          \* the arguments the client was constructed with
    vendor,          \* which client class: "sfassist" or "cortex"
    client,          \* the client's attributes (api_key, base_url, model, app_id, aplctn_cd)
    messages,        \* the caller's message list
    system_message,  \* the explicit system argument of _build_payload
    model,           \* the model argument of create
    stream,          \* the stream argument of create
    payload,         \* the payload built by _build_payload
    posts,           \* the calls of requests.post made by the current create call
    sent,            \* the requests posted by this client, in order
    response,        \* the backend's answer to the POST
    result,          \* what create returned or raised
    content,         \* the text handed to _simulate_streaming
    words,           \* the generator's words still to be yielded
    chunks,          \* the chunks yielded so far, in emission order
    pc               \* the position of the call

vars == <<config, vendor, client, messages, system_message, model, stream, payload,
          posts, sent, response, result, content, words, chunks, pc>>

(***************************************************************************)
(* Bounds of the model.                                                    *)
(***************************************************************************)
MaxLen == 12       \* longest message list given to _build_payload
MaxSys == 2        \* most system-role messages in one message list

Vendors == {"sfassist", "cortex"}

(***************************************************************************)
(* Python helpers.                                                         *)
(***************************************************************************)
None == <<>>
Some(s) == <<s>>

\* `not v` for an optional string: None and the empty string are falsy.
Falsy(v) == v = None \/ v = Some("")

\* seq[-n:] for 0 < n
LastN(seq, n) ==
    IF Len(seq) <= n THEN seq ELSE SubSeq(seq, Len(seq) - n + 1, Len(seq))

\* seq[:n], used by a mutant only
FirstN(seq, n) ==
    IF Len(seq) <= n THEN seq ELSE SubSeq(seq, 1, n)

(***************************************************************************)
(* Python values met in responses and results.  A leaf value is a record   *)
(* [t, s, n]: t is "absent" (the key is not in the dict), "NoneType",      *)
(* "int" (its value is n) or "str" (its text is s).                        *)
(***************************************************************************)
Absent == [t |-> "absent", s |-> <<>>, n |-> 0]
PyNone == [t |-> "NoneType", s |-> <<>>, n |-> 0]
PyInt(k) == [t |-> "int", s |-> <<>>, n |-> k]
PyStr(text) == [t |-> "str", s |-> text, n |-> 0]

\* The usage counters of UsageStats() called without arguments.
ZeroUsage ==
    [prompt_tokens |-> PyInt(0), completion_tokens |-> PyInt(0), total_tokens |-> PyInt(0)]

NoError == [type |-> "", message |-> <<>>]

\* What create has returned or raised: kind is "none" (the call is not
\* over), "completion" (a CompletionResponse), "generator" (the chunk
\* sequence of _simulate_streaming) or "raised".
NoResult == [kind |-> "none", content |-> PyNone, usage |-> ZeroUsage, error |-> NoError]

Completion(c, u) == [kind |-> "completion", content |-> c, usage |-> u, error |-> NoError]

Generator(c) == [kind |-> "generator", content |-> c, usage |-> ZeroUsage, error |-> NoError]

Raised(type, message) ==
    [kind |-> "raised", content |-> PyNone, usage |-> ZeroUsage,
     error |-> [type |-> type, message |-> message]]

NoResponse == [status |-> 0]

\* The outcome of a computation that may raise: ok with the value computed,
\* or not ok with the type of the exception raised.
Ok(value) == [ok |-> TRUE, value |-> value, error |-> ""]

Fail(type) == [ok |-> FALSE, value |-> PyNone, error |-> type]

(***************************************************************************)
(* The client's configuration after construction.  api_key and model are   *)
(* optional strings (a config may hold None for them), base_url is a       *)
(* sequence of symbols: "/" is one slash, every other symbol is a run of   *)
(* characters without a slash.                                             *)
(***************************************************************************)
DefaultModel(v) == IF v = "sfassist" THEN "claude-4-sonnet" ELSE "llama3.1-70b"

\* Mutant: only one trailing slash is removed.
RStripOneSlash(url) ==
    IF Len(url) > 0 /\ url[Len(url)] = "/" THEN SubSeq(url, 1, Len(url) - 1) ELSE url

\* url.rstrip('/') on a url given as a sequence of symbols
RECURSIVE RStripSlash(_)
RStripSlash(url) ==
    IF Len(url) > 0 /\ url[Len(url)] = "/"
    THEN RStripSlash(SubSeq(url, 1, Len(url) - 1))
    ELSE url

\* __init__ called with individual parameters (the last branch): api_key is
\* kept as given, base_url and mdl are optional.
ExplicitClient(v, api_key, base_url, mdl) ==
    [api_key   |-> api_key,
     base_url  |-> IF base_url = None \/ base_url = Some(<<>>) THEN <<>>
                   ELSE RStripSlash(base_url[1]),
     model     |-> IF Falsy(mdl) THEN Some(DefaultModel(v)) ELSE mdl,
     app_id    |-> "edadip",
     aplctn_cd |-> "edagnai"]

(***************************************************************************)
(* __init__.  The constructor's argument is a record                       *)
(*   form     "dict" (a config dict), "object" (a config object with       *)
(*            attributes), "params" (api_key, base_url, model given one    *)
(*            by one) or "factory" (the factory function is called);       *)
(*   section  for a dict or an object: whether the values sit in its       *)
(*            vendor section ('sfassist', 'snowflake') or at its root;     *)
(*   keys     for a dict or an object: the keys (attributes) that exist    *)
(*            where the values are looked up;                              *)
(*   api_key, base_url, model, app_id, aplctn_cd   the values.             *)
(***************************************************************************)
Config(form, section, keys, api_key, base_url, mdl) ==
    [form |-> form, section |-> section, keys |-> keys,
     api_key |-> api_key, base_url |-> base_url, model |-> mdl,
     app_id |-> "custom-id", aplctn_cd |-> "custom-cd"]

\* The default of the 'model' lookup in the branch taken: the dict branch
\* of SnowflakeCortexClient with a 'snowflake' section has its own.
ConfigDefaultModel(v, cfg) ==
    IF v = "cortex" /\ cfg.form = "dict" /\ cfg.section
    THEN "snowflake-llama-3.3-70b"
    ELSE DefaultModel(v)

\* config.get(key, default) and getattr(config, key, default)
Get(cfg, key, default) == IF key \in cfg.keys THEN cfg[key] ELSE default

\* hasattr(config_or_api_key, 'api_key') or hasattr(config_or_api_key, <section>)
IsConfigObject(cfg) ==
    cfg.form = "object" /\ (cfg.section \/ "api_key" \in cfg.keys)

\* The dict and the object branches.  base_url is looked up with the default
\* '' and right-stripped: a base_url of None has no rstrip.
ConfigClient(v, cfg) ==
    LET base_url == Get(cfg, "base_url", Some(<<>>))
    IN  IF base_url = None THEN Fail("AttributeError")
        ELSE Ok([api_key   |-> Get(cfg, "api_key", None),
                 base_url  |-> RStripSlash(base_url[1]),
                 model     |-> Get(cfg, "model", Some(ConfigDefaultModel(v, cfg))),
                 app_id    |-> Get(cfg, "app_id", "edadip"),
                 aplctn_cd |-> Get(cfg, "aplctn_cd", "edagnai")])

\* An object that has neither an api_key attribute nor the vendor section is
\* taken for the api_key itself; it is formatted as its repr.
OBJECT == "<config object>"

\* The outcome of __init__: the client's attributes, or the exception.
__init__(v, cfg) ==
    IF cfg.form = "dict" \/ IsConfigObject(cfg) THEN ConfigClient(v, cfg)
    ELSE IF cfg.form = "object" THEN Ok(ExplicitClient(v, Some(OBJECT), None, None))
    ELSE Ok(ExplicitClient(v, cfg.api_key, cfg.base_url, cfg.model))

\* The default of the model parameter of the factory functions
\* create_sfassist_client and create_snowflake_client.
FactoryDefaultModel(v) ==
    IF v = "sfassist" THEN "claude-4-sonnet" ELSE "snowflake-llama-3.3-70b"

\* create_sfassist_client(api_key, base_url, model=<default>) and
\* create_snowflake_client: the constructor called with the three values.
\* "model" is among the keys when the caller passes a model.
FactoryClient(v, cfg) ==
    ExplicitClient(v, cfg.api_key, cfg.base_url,
                   IF "model" \in cfg.keys THEN cfg.model
                   ELSE Some(FactoryDefaultModel(v)))

\* A client is made: by the factory function (form "factory") or by the
\* constructor.
NewClient(v, cfg) ==
    IF cfg.form = "factory" THEN Ok(FactoryClient(v, cfg)) ELSE __init__(v, cfg)

\* The attributes before __init__ has run.
NoClient ==
    [api_key |-> None, base_url |-> <<>>, model |-> None, app_id |-> "", aplctn_cd |-> ""]

(***************************************************************************)
(* _build_payload                                                          *)
(***************************************************************************)
DEFAULT_SYSTEM == "You are a helpful AI assistant for data analysis and Python programming."

HistoryWindow == 10

\* The loop over messages, as far as sys_msg goes: sys_msg after the
\* messages from index i on have been scanned.
RECURSIVE ScanSystem(_, _, _)
ScanSystem(msgs, i, sys_msg) ==
    IF i > Len(msgs) THEN sys_msg
    ELSE IF msgs[i].role = "system" /\ Falsy(sys_msg)
         THEN ScanSystem(msgs, i + 1, Some(msgs[i].content))
         ELSE ScanSystem(msgs, i + 1, sys_msg)

\* Mutant: every system message overwrites sys_msg (the last one wins, and
\* the explicit argument loses).
RECURSIVE ScanSystemLast(_, _, _)
ScanSystemLast(msgs, i, sys_msg) ==
    IF i > Len(msgs) THEN sys_msg
    ELSE IF msgs[i].role = "system"
         THEN ScanSystemLast(msgs, i + 1, Some(msgs[i].content))
         ELSE ScanSystemLast(msgs, i + 1, sys_msg)

ExtractSystemLast(msgs, explicit) == ScanSystemLast(msgs, 1, explicit)

\* sys_msg when the loop ends; it starts as the explicit argument.
ExtractSystem(msgs, explicit) == ScanSystem(msgs, 1, explicit)

\* The loop over messages, as far as filtered_messages goes: a fresh
\* {role, content} dict for every message whose role is not "system".
RECURSIVE ScanFiltered(_, _, _)
ScanFiltered(msgs, i, filtered) ==
    IF i > Len(msgs) THEN filtered
    ELSE IF msgs[i].role = "system"
         THEN ScanFiltered(msgs, i + 1, filtered)
         ELSE ScanFiltered(msgs, i + 1,
                 Append(filtered, [role |-> msgs[i].role, content |-> msgs[i].content]))

\* Mutant: the system messages stay in the history.
FilterMessagesAll(msgs) ==
    [i \in 1..Len(msgs) |-> [role |-> msgs[i].role, content |-> msgs[i].content]]

\* filtered_messages when the loop ends; it starts as [].
FilterMessages(msgs) == ScanFiltered(msgs, 1, <<>>)

\* Mutant: the default is substituted for None only ("if sys_msg is None").
DefaultSystemNoneOnly(sys_msg) == IF sys_msg = None THEN DEFAULT_SYSTEM ELSE sys_msg[1]

\* "if not sys_msg: sys_msg = <default>"
DefaultSystem(sys_msg) == IF Falsy(sys_msg) THEN DEFAULT_SYSTEM ELSE sys_msg[1]

\* Mutant: the history keeps its first entries instead of its last.
TrimHistoryHead(v, filtered) ==
    IF v = "cortex" /\ Len(filtered) > HistoryWindow
    THEN FirstN(filtered, HistoryWindow)
    ELSE filtered

\* "if len(filtered_messages) > 10: filtered_messages = filtered_messages[-10:]"
\* (SnowflakeCortexClient only; SFAssistClient sends the whole history).
TrimHistory(v, filtered) ==
    IF v = "cortex" /\ Len(filtered) > HistoryWindow
    THEN LastN(filtered, HistoryWindow)
    ELSE filtered

\* Mutant: the message array always opens with the default instruction,
\* whatever sys_msg was extracted.
AllMessagesStale(sys_msg, filtered) ==
    <<[role |-> "system", content |-> DEFAULT_SYSTEM]>> \o filtered

\* all_messages = [{"role": "system", "content": sys_msg}] + filtered_messages
AllMessages(sys_msg, filtered) ==
    <<[role |-> "system", content |-> sys_msg]>> \o filtered

\* The "model" entry of the payload: a flat string for SFAssistClient, a
\* {name, provider} structure for SnowflakeCortexClient.
ModelEntry(v, self) ==
    IF v = "cortex" THEN [name |-> self.model, provider |-> "anthropic"]
    ELSE self.model

\* "limit_convs": 0 for SnowflakeCortexClient, "0" for SFAssistClient
LimitConvs(v) == IF v = "cortex" THEN 0 ELSE "0"

_build_payload(v, self, msgs, explicit) ==
    LET sys_msg  == DefaultSystem(ExtractSystem(msgs, explicit))
        filtered == TrimHistory(v, FilterMessages(msgs))
        all_messages == AllMessages(sys_msg, filtered)
    IN  [query |->
            [aplctn_cd      |-> self.aplctn_cd,
             app_id         |-> self.app_id,
             api_key        |-> self.api_key,
             method         |-> "cortex",
             model          |-> ModelEntry(v, self),
             sys_msg        |-> sys_msg,
             limit_convs    |-> LimitConvs(v),
             prompt         |-> [messages |-> all_messages],
             app_lvl_prefix |-> "edadip",
             user_id        |-> "",
             session_id     |-> "dsa_session"]]

(***************************************************************************)
(* The inputs of the payload builder.                                      *)
(***************************************************************************)
KEY == "key-1"
URL == <<"https:", "/", "/", "gateway", "/", "api", "/">>

\* The configuration of the client the builder and create are studied on.
TheConfig == Config("params", FALSE, {}, Some(KEY), Some(URL), None)

TheClient(v) == ExplicitClient(v, Some(KEY), Some(URL), None)

\* The message list of length n whose system-role messages stand at the
\* positions sys, those at the positions empty with an empty content.  The
\* content of every other message names its position, so that no two
\* messages of a list are equal.
MessageList(n, sys, empty) ==
    [i \in 1..n |->
        IF i \in sys
        THEN [role |-> "system",
              content |-> IF i \in empty THEN "" ELSE "sys" \o ToString(i)]
        ELSE [role |-> IF i % 2 = 1 THEN "user" ELSE "assistant",
              content |-> "msg" \o ToString(i)]]

MessageLists ==
    UNION { UNION { { MessageList(n, sys, empty) : empty \in SUBSET sys } :
                    sys \in { s \in SUBSET (1..n) : Cardinality(s) <= MaxSys } } :
            n \in 0..MaxLen }

SystemArguments == {None, Some(""), Some("explicit")}

NoPayload == _build_payload("sfassist", TheClient("sfassist"), <<>>, None)

\* The variables of the gateway call, at rest.
CallAtRest ==
    /\ model = "" /\ stream = FALSE /\ posts = 0 /\ sent = <<>>
    /\ response = NoResponse /\ result = NoResult

\* The variables of the chunk generator, at rest.
StreamAtRest ==
    /\ content = PyNone /\ words = <<>> /\ chunks = <<>>

(***************************************************************************)
(* SpecBuild: _build_payload applied to every input of the bounded sets.   *)
(***************************************************************************)
InitBuild ==
    /\ vendor \in Vendors
    /\ config = TheConfig
    /\ client = TheClient(vendor)
    /\ messages \in MessageLists
    /\ system_message \in SystemArguments
    /\ payload = NoPayload
    /\ pc = "ready"
    /\ CallAtRest /\ StreamAtRest

BuildPayload ==
    /\ pc = "ready"
    /\ payload' = _build_payload(vendor, client, messages, system_message)
    /\ pc' = "built"
    /\ UNCHANGED <<config, vendor, client, messages, system_message, model, stream,
                   posts, sent, response, result, content, words, chunks>>

NextBuild == BuildPayload

SpecBuild == InitBuild /\ [][NextBuild]_vars

(***************************************************************************)
(* Properties of the payload builder.                                      *)
(***************************************************************************)
Built == pc = "built"

PayloadMessages == payload.query.prompt.messages

\* The history transmitted: the message array after its first entry.
PayloadHistory == SubSeq(PayloadMessages, 2, Len(PayloadMessages))

HasSystemMessage == \E i \in 1..Len(messages) : messages[i].role = "system"

\* The non-system messages of the caller's list, in order.
NonSystem == SelectSeq(messages, LAMBDA m : m.role # "system")

OneLeadingSystem ==
    /\ Len(PayloadMessages) >= 1
    /\ PayloadMessages[1].role = "system"
    /\ \A i \in 2..Len(PayloadMessages) : PayloadMessages[i].role # "system"

\* C1 as stated: the message array holds exactly one system entry, at index
\* 0, and whenever an explicit system argument and an in-history system
\* message are both supplied the explicit argument is the content used.
C1_Original ==
    Built =>
        /\ OneLeadingSystem
        /\ (system_message # None /\ HasSystemMessage)
              => PayloadMessages[1].content = system_message[1]

\* C1 as amended: the message array holds exactly one system entry, at index
\* 0, and whenever a non-empty explicit system argument and an in-history
\* system message are both supplied the explicit argument is the content
\* used.
C1_OneLeadingSystem ==
    Built =>
        /\ OneLeadingSystem
        /\ (system_message # None /\ system_message # Some("") /\ HasSystemMessage)
              => PayloadMessages[1].content = system_message[1]

C1_Witness ==
    /\ Built
    /\ system_message = Some("explicit")
    /\ Cardinality({i \in 1..Len(messages) : messages[i].role = "system"}) = 2
    /\ messages[1].role = "system" /\ messages[1].content # ""
    /\ PayloadMessages[1].content = "explicit"

\* C2 as stated: for SnowflakeCortexClient and a message list longer than
\* the window, the transmitted history has exactly 10 entries and is the
\* last 10 entries of the list.
C2_Original ==
    (Built /\ vendor = "cortex" /\ Len(messages) > HistoryWindow) =>
        /\ Len(PayloadHistory) = HistoryWindow
        /\ PayloadHistory = LastN(messages, HistoryWindow)

\* C2 as amended: for SnowflakeCortexClient and a message list with more
\* than 10 non-system messages, the transmitted history has exactly 10
\* entries and is the last 10 non-system messages of the list, in order.
C2_SuffixOfNonSystem ==
    (Built /\ vendor = "cortex" /\ Len(NonSystem) > HistoryWindow) =>
        /\ Len(PayloadHistory) = HistoryWindow
        /\ \A j \in 1..HistoryWindow :
              PayloadHistory[j] = NonSystem[Len(NonSystem) - HistoryWindow + j]

C2_Witness ==
    /\ Built /\ vendor = "cortex"
    /\ Len(NonSystem) = HistoryWindow + 1
    /\ HasSystemMessage
    /\ Len(PayloadHistory) = HistoryWindow
    /\ PayloadHistory[1] # NonSystem[1]

\* C10: in every payload built, the sys_msg field and the content of the
\* first element of prompt.messages hold the same system instruction text.
C10_SystemInBothPlaces ==
    Built => payload.query.sys_msg = PayloadMessages[1].content

C10_Witness ==
    /\ Built
    /\ system_message = None
    /\ HasSystemMessage
    /\ payload.query.sys_msg # DEFAULT_SYSTEM
    /\ payload.query.sys_msg = PayloadMessages[1].content

\* Neither the explicit argument nor a system-role message has a content.
NoSystemContent ==
    /\ Falsy(system_message)
    /\ \A i \in 1..Len(messages) :
          messages[i].role = "system" => messages[i].content = ""

\* C13: when neither the explicit system argument nor a system-role message
\* supplies a content (an empty message list included), the payload carries
\* the default instruction in both system slots; the system slot of a
\* payload is never empty; for an empty message list the build succeeds
\* and the history after the system entry is empty.
C13_DefaultSystem ==
    /\ (pc = "ready" /\ messages = <<>>) => ENABLED BuildPayload
    /\ Built =>
          /\ payload.query.sys_msg # ""
          /\ PayloadMessages[1].content # ""
          /\ NoSystemContent =>
                /\ payload.query.sys_msg = DEFAULT_SYSTEM
                /\ PayloadMessages[1] = [role |-> "system", content |-> DEFAULT_SYSTEM]
          /\ messages = <<>> => PayloadHistory = <<>>

C13_Witness ==
    /\ Built
    /\ messages = <<>> /\ system_message = None
    /\ payload.query.sys_msg = DEFAULT_SYSTEM
    /\ PayloadMessages = <<[role |-> "system", content |-> DEFAULT_SYSTEM]>>

C13_WitnessEmptyContent ==
    /\ Built
    /\ system_message = Some("")
    /\ Len(messages) = 3
    /\ messages[2].role = "system" /\ messages[2].content = ""
    /\ payload.query.sys_msg = DEFAULT_SYSTEM
    /\ Len(PayloadHistory) = 2

\* The positions of the system-role messages of the caller's list.
SystemPositions == { i \in 1..Len(messages) : messages[i].role = "system" }

\* The least position of a set of positions.
First(positions) == CHOOSE i \in positions : \A j \in positions : i <= j

\* C14 as stated: with no explicit system argument and at least one
\* system-role message, the system instruction of the payload is the
\* content of the first system-role message, empty contents included.
C14_Original ==
    (Built /\ system_message = None /\ HasSystemMessage) =>
        payload.query.sys_msg = messages[First(SystemPositions)].content

\* The positions of the system-role messages whose content is not empty.
NonEmptySystemPositions == { i \in SystemPositions : messages[i].content # "" }

\* C14 as amended: with no explicit system argument and at least one
\* system-role message whose content is not empty, the system instruction
\* of the payload is the content of the first such message; system-role
\* messages with an empty content are passed over.
C14_FirstNonEmptySystem ==
    (Built /\ system_message = None /\ NonEmptySystemPositions # {}) =>
        payload.query.sys_msg = messages[First(NonEmptySystemPositions)].content

C14_Witness ==
    /\ Built /\ system_message = None
    /\ Cardinality(SystemPositions) = 2
    /\ Cardinality(NonEmptySystemPositions) = 1
    /\ First(SystemPositions) # First(NonEmptySystemPositions)
    /\ payload.query.sys_msg = messages[First(NonEmptySystemPositions)].content

C14_WitnessSeveral ==
    /\ Built /\ system_message = None
    /\ Cardinality(NonEmptySystemPositions) = 2
    /\ payload.query.sys_msg = messages[First(SystemPositions)].content

\* seq is what is left of whole once its first entries are dropped.
IsSuffix(seq, whole) ==
    /\ Len(seq) <= Len(whole)
    /\ seq = SubSeq(whole, Len(whole) - Len(seq) + 1, Len(whole))

\* C15: the history of the payload holds no system-role message and holds
\* the non-system messages of the input with their role and content in
\* their original order: all of them for SFAssistClient, a suffix of them
\* for SnowflakeCortexClient.
C15_HistoryIsNonSystem ==
    Built =>
        /\ \A j \in 1..Len(PayloadHistory) : PayloadHistory[j].role # "system"
        /\ vendor = "sfassist" => PayloadHistory = NonSystem
        /\ vendor = "cortex" => IsSuffix(PayloadHistory, NonSystem)
        /\ (vendor = "cortex" /\ Len(NonSystem) <= HistoryWindow) => PayloadHistory = NonSystem

C15_Witness ==
    /\ Built /\ vendor = "sfassist"
    /\ Cardinality(SystemPositions) = 1
    /\ 1 \notin SystemPositions /\ Len(messages) \notin SystemPositions
    /\ Len(NonSystem) > HistoryWindow
    /\ PayloadHistory = NonSystem

C15_WitnessCortex ==
    /\ Built /\ vendor = "cortex"
    /\ Cardinality(SystemPositions) = 2
    /\ Len(NonSystem) = HistoryWindow
    /\ PayloadHistory = NonSystem

(***************************************************************************)
(* SpecRebuild: _build_payload is called a second time on the same client  *)
(* with the same arguments.                                                *)
(***************************************************************************)
\* Mutant: filtered_messages is kept from one call to the next instead of
\* starting empty, so the second call appends to the history of the first.
BuildAgainKept ==
    /\ pc = "built"
    /\ payload' = [payload EXCEPT !.query.prompt.messages = @ \o FilterMessages(messages)]
    /\ pc' = "rebuilt"
    /\ UNCHANGED <<config, vendor, client, messages, system_message, model, stream,
                   posts, sent, response, result, content, words, chunks>>

\* The second call, with the arguments of the first.
BuildAgain ==
    /\ pc = "built"
    /\ payload' = _build_payload(vendor, client, messages, system_message)
    /\ pc' = "rebuilt"
    /\ UNCHANGED <<config, vendor, client, messages, system_message, model, stream,
                   posts, sent, response, result, content, words, chunks>>

NextRebuild == BuildPayload \/ BuildAgain

SpecRebuild == InitBuild /\ [][NextRebuild]_vars

MaxText == 4       \* longest text given to _simulate_streaming on its own

HasSpace(text) == \E i \in 1..Len(text) : text[i] = " "

FirstSpace(text) == CHOOSE i \in 1..Len(text) :
                        text[i] = " " /\ \A j \in 1..(i - 1) : text[j] # " "

\* text.split(' '): the words between the single spaces, empty words kept.
RECURSIVE Split(_)
Split(text) ==
    IF ~HasSpace(text) THEN <<text>>
    ELSE LET i == FirstSpace(text)
         IN  <<SubSeq(text, 1, i - 1)>> \o Split(SubSeq(text, i + 1, Len(text)))

\* Mutant: no chunk gets the space.
ChunkTextNoSpace(i, word) == word

\* Mutant: the space is put after the word instead of before it.
ChunkTextTrailing(i, word) == word \o <<" ">>

\* chunk_text = word if i == 0 else ' ' + word   (i counts from 0)
ChunkText(i, word) == IF i = 0 THEN word ELSE <<" ">> \o word

\* The concatenation of the chunks' texts, in order.
RECURSIVE Concat(_)
Concat(cs) == IF cs = <<>> THEN <<>> ELSE Head(cs) \o Concat(Tail(cs))

\* All the chunks of a list of words, in order.
AllChunks(ws) == [i \in 1..Len(ws) |-> IF i = 1 THEN ws[i] ELSE <<" ">> \o ws[i]]

\* Mutant: the chunks are all made at once (a list is built, not a
\* generator): the first pull finds every chunk ready.
GenFirstEager ==
    /\ pc = "gen_created"
    /\ content.t = "str"
    /\ words' = Split(content.s)
    /\ chunks' = AllChunks(words')
    /\ pc' = "gen_yielded"
    /\ UNCHANGED <<config, vendor, client, messages, system_message, model, stream,
                   payload, posts, sent, response, result, content>>

\* The first pull: words = content.split(' '), then the first chunk.
GenFirst ==
    /\ pc = "gen_created"
    /\ content.t = "str"
    /\ words' = Split(content.s)
    /\ chunks' = <<ChunkText(0, words'[1])>>
    /\ pc' = "gen_yielded"
    /\ UNCHANGED <<config, vendor, client, messages, system_message, model, stream,
                   payload, posts, sent, response, result, content>>

\* A later pull while words are left: the next chunk.
GenNext ==
    /\ pc = "gen_yielded"
    /\ Len(chunks) < Len(words)
    /\ chunks' = Append(chunks, ChunkText(Len(chunks), words[Len(chunks) + 1]))
    /\ UNCHANGED <<config, vendor, client, messages, system_message, model, stream,
                   payload, posts, sent, response, result, content, words, pc>>

\* The pull after the last chunk: the loop ends, StopIteration.
GenStop ==
    /\ pc = "gen_yielded"
    /\ Len(chunks) = Len(words)
    /\ pc' = "gen_done"
    /\ UNCHANGED <<config, vendor, client, messages, system_message, model, stream,
                   payload, posts, sent, response, result, content, words, chunks>>

(***************************************************************************)
(* SpecStream: _simulate_streaming applied to every text of the bounded    *)
(* set and iterated to its end.                                            *)
(***************************************************************************)
Symbols == {"a", " "}

TextsUpTo(n) == UNION { [1..k -> Symbols] : k \in 0..n }

InitStream ==
    /\ vendor \in Vendors
    /\ config = TheConfig
    /\ client = TheClient(vendor)
    /\ messages = <<>>
    /\ system_message = None
    /\ payload = NoPayload
    /\ CallAtRest
    /\ content \in { PyStr(text) : text \in TextsUpTo(MaxText) }
    /\ words = <<>> /\ chunks = <<>>
    /\ pc = "gen_created"

NextStream == GenFirst \/ GenNext \/ GenStop

SpecStream == InitStream /\ [][NextStream]_vars

\* C3: for any response text T, the empty string and strings with leading,
\* trailing or consecutive spaces included, the contents of all chunks
\* yielded by _simulate_streaming(T), concatenated in emission order, are T.
C3_RoundTrip ==
    pc = "gen_done" => Concat(chunks) = content.s

C3_Witness ==
    /\ pc = "gen_done"
    /\ Len(content.s) = 4
    /\ content.s[1] = " " /\ content.s[3] = " " /\ content.s[4] = " "
    /\ content.s[2] = "a"
    /\ Len(chunks) = 4

C3_WitnessEmpty ==
    /\ pc = "gen_done"
    /\ content.s = <<>>
    /\ chunks = << <<>> >>

\* The positions of the space characters of a text.
SpacePositions(text) == { i \in 1..Len(text) : text[i] = " " }

\* The position of the k-th space of a text; 0 stands before the text
\* (k = 0) and Len(text) + 1 after it (k past the last space).
Boundary(text, k) ==
    IF k = 0 THEN 0
    ELSE IF k > Cardinality(SpacePositions(text)) THEN Len(text) + 1
    ELSE CHOOSE i \in SpacePositions(text) :
             Cardinality({ j \in SpacePositions(text) : j <= i }) = k

\* The k-th word token of a text: what stands between its (k-1)-th and its
\* k-th space.
Token(text, k) == SubSeq(text, Boundary(text, k - 1) + 1, Boundary(text, k) - 1)

\* C23: the chunks of _simulate_streaming(T) are the word tokens of T
\* between its single spaces, in left-to-right order: there are as many
\* chunks as T has space characters, plus one; the first chunk is the
\* first token with nothing added; every later chunk is one space
\* followed by its token.
C23_ChunksAreWords ==
    pc = "gen_done" =>
        /\ Len(chunks) = Cardinality(SpacePositions(content.s)) + 1
        /\ chunks[1] = Token(content.s, 1)
        /\ \A k \in 2..Len(chunks) : chunks[k] = <<" ">> \o Token(content.s, k)

C23_Witness ==
    /\ pc = "gen_done"
    /\ content.s = <<"a", " ", " ", "a">>
    /\ chunks = << <<"a">>, <<" ">>, <<" ", "a">> >>

(***************************************************************************)
(* The backend's answers.  A body either does not parse as JSON (json is   *)
(* FALSE and raw is its text) or parses to data:                           *)
(*   data.t      "dict", "list", "str", "int" or "NoneType";               *)
(*   data.has    for a list or a str, the keys k with `k in data` true     *)
(*               (an element equal to k, a substring k);                   *)
(*   data.text, data.response, data.error   leaf values;                   *)
(*   data.choices  [t, n, first]: t "absent", "NoneType", "int" or "list", *)
(*               n its length, first its element 0, [t, message];          *)
(*   data.message  [t, content]: t "absent", "NoneType", "str" or "dict";  *)
(*   data.usage  [t, prompt_tokens, completion_tokens, total_tokens]:      *)
(*               t "absent", "NoneType", "list" or "dict".                 *)
(***************************************************************************)
MaxFields == 2     \* most keys present in one JSON object of a response

Fields == {"text", "response", "choices", "message", "usage", "error"}

NoMessage == [t |-> "absent", content |-> Absent]
NoElement == [t |-> "absent", message |-> NoMessage]
NoChoices == [t |-> "absent", n |-> 0, first |-> NoElement]
NoUsage   == [t |-> "absent", prompt_tokens |-> Absent,
              completion_tokens |-> Absent, total_tokens |-> Absent]

TextValues(word) == {PyNone, PyInt(7), PyStr(<<>>), PyStr(<<word, " ", "x">>)}

MessageValues(word) ==
    { [t |-> "NoneType", content |-> Absent], [t |-> "str", content |-> Absent] }
    \cup { [t |-> "dict", content |-> c] : c \in {Absent, PyNone, PyStr(<<word>>)} }

ChoicesValues ==
    { [t |-> "NoneType", n |-> 0, first |-> NoElement],
      [t |-> "int", n |-> 0, first |-> NoElement],
      [t |-> "list", n |-> 0, first |-> NoElement],
      [t |-> "list", n |-> 1, first |-> [t |-> "str", message |-> NoMessage]],
      [t |-> "list", n |-> 1, first |-> [t |-> "dict", message |-> NoMessage]] }
    \cup { [t |-> "list", n |-> 1, first |-> [t |-> "dict", message |-> m]] :
             m \in MessageValues("C") }

UsageValues ==
    { [t |-> "NoneType", prompt_tokens |-> Absent,
       completion_tokens |-> Absent, total_tokens |-> Absent],
      [t |-> "list", prompt_tokens |-> Absent,
       completion_tokens |-> Absent, total_tokens |-> Absent],
      [t |-> "dict", prompt_tokens |-> Absent,
       completion_tokens |-> Absent, total_tokens |-> Absent],
      [t |-> "dict", prompt_tokens |-> PyInt(3),
       completion_tokens |-> Absent, total_tokens |-> Absent],
      [t |-> "dict", prompt_tokens |-> PyInt(3),
       completion_tokens |-> PyInt(4), total_tokens |-> PyInt(7)] }

\* The JSON objects whose present keys are exactly those of keys.
Objects(keys) ==
    { [t |-> "dict", has |-> keys, text |-> tx, response |-> rs, choices |-> ch,
       message |-> ms, usage |-> us, error |-> er] :
        tx \in IF "text" \in keys THEN TextValues("A") ELSE {Absent},
        rs \in IF "response" \in keys THEN TextValues("B") ELSE {Absent},
        ch \in IF "choices" \in keys THEN ChoicesValues ELSE {NoChoices},
        ms \in IF "message" \in keys THEN MessageValues("M") ELSE {NoMessage},
        us \in IF "usage" \in keys THEN UsageValues ELSE {NoUsage},
        er \in IF "error" \in keys THEN {PyStr(<<"boom">>)} ELSE {Absent} }

\* JSON that is not an object: an array, a string, a number, null.
NonObject(t, keys) ==
    [t |-> t, has |-> keys, text |-> Absent, response |-> Absent, choices |-> NoChoices,
     message |-> NoMessage, usage |-> NoUsage, error |-> Absent]

NonObjects ==
    { NonObject(t, keys) : t \in {"list", "str"}, keys \in {{}, {"text"}, {"choices"}} }
    \cup { NonObject("int", {}), NonObject("NoneType", {}) }

JsonData ==
    NonObjects
    \cup UNION { Objects(keys) : keys \in { k \in SUBSET Fields : Cardinality(k) <= MaxFields } }

RawTexts == { <<"plain", " ", "text", " ", "reply">>, <<>>, <<" ", "<html>", " ", " ">> }

Bodies ==
    { [json |-> FALSE, raw |-> r, data |-> NonObject("NoneType", {})] : r \in RawTexts }
    \cup { [json |-> TRUE, raw |-> <<>>, data |-> d] : d \in JsonData }

Statuses == {200, 201, 404, 500}

(***************************************************************************)
(* str(data) and json.dumps(data, indent=2), as sequences of symbols.  The *)
(* keys come in the order text, response, choices, message, usage, error.  *)
(* style is "repr" (Python's str of a dict) or "json" (json.dumps); the    *)
(* line breaks and the indentation of json.dumps are not rendered.         *)
(***************************************************************************)
Quote(style) == IF style = "repr" THEN "'" ELSE "\""

Separator(style) == IF style = "repr" THEN <<",", " ">> ELSE <<",">>

\* The rendered entries of a dict, separated.
RECURSIVE Join(_, _)
Join(parts, style) ==
    IF parts = <<>> THEN <<>>
    ELSE IF Len(parts) = 1 THEN parts[1]
    ELSE parts[1] \o Separator(style) \o Join(Tail(parts), style)

\* The entries that are present, out of <<present, rendering>> pairs.
PresentEntries(pairs) ==
    LET kept == SelectSeq(pairs, LAMBDA p : p[1])
    IN  [i \in 1..Len(kept) |-> kept[i][2]]

RenderKey(key, style) == <<Quote(style) \o key \o Quote(style) \o ":", " ">>

RenderLeaf(val, style) ==
    CASE val.t = "NoneType" -> <<IF style = "repr" THEN "None" ELSE "null">>
      [] val.t = "int"      -> <<ToString(val.n)>>
      [] val.t = "str"      -> <<Quote(style)>> \o val.s \o <<Quote(style)>>
      [] OTHER              -> <<>>

RenderMessage(m, style) ==
    CASE m.t = "NoneType" -> RenderLeaf(PyNone, style)
      [] m.t = "str"      -> RenderLeaf(PyStr(<<"m">>), style)
      [] m.t = "dict"     ->
            <<"{">> \o (IF m.content.t = "absent" THEN <<>>
                        ELSE RenderKey("content", style) \o RenderLeaf(m.content, style))
                    \o <<"}">>
      [] OTHER            -> <<>>

RenderElement(e, style) ==
    CASE e.t = "str"  -> RenderLeaf(PyStr(<<"e">>), style)
      [] e.t = "dict" ->
            <<"{">> \o (IF e.message.t = "absent" THEN <<>>
                        ELSE RenderKey("message", style) \o RenderMessage(e.message, style))
                    \o <<"}">>
      [] OTHER        -> <<>>

RenderChoices(c, style) ==
    CASE c.t = "NoneType" -> RenderLeaf(PyNone, style)
      [] c.t = "int"      -> RenderLeaf(PyInt(7), style)
      [] c.t = "list"     ->
            <<"[">> \o (IF c.n = 0 THEN <<>> ELSE RenderElement(c.first, style)) \o <<"]">>
      [] OTHER            -> <<>>

RenderCounter(key, val, style) ==
    <<val.t # "absent", RenderKey(key, style) \o RenderLeaf(val, style)>>

RenderUsage(u, style) ==
    CASE u.t = "NoneType" -> RenderLeaf(PyNone, style)
      [] u.t = "list"     -> <<"[", "]">>
      [] u.t = "dict"     ->
            <<"{">>
            \o Join(PresentEntries(
                    <<RenderCounter("prompt_tokens", u.prompt_tokens, style),
                      RenderCounter("completion_tokens", u.completion_tokens, style),
                      RenderCounter("total_tokens", u.total_tokens, style)>>), style)
            \o <<"}">>
      [] OTHER            -> <<>>

RenderField(key, present, value, style) ==
    <<present, RenderKey(key, style) \o value>>

RenderData(d, style) ==
    CASE d.t = "NoneType" -> RenderLeaf(PyNone, style)
      [] d.t = "int"      -> RenderLeaf(PyInt(7), style)
      [] d.t = "str"      -> IF style = "repr" THEN <<"pong">>
                             ELSE RenderLeaf(PyStr(<<"pong">>), style)
      [] d.t = "list"     -> <<"[", "1", ",", " ", "2", "]">>
      [] OTHER            ->
            <<"{">>
            \o Join(PresentEntries(
                    <<RenderField("text", "text" \in d.has,
                                  RenderLeaf(d.text, style), style),
                      RenderField("response", "response" \in d.has,
                                  RenderLeaf(d.response, style), style),
                      RenderField("choices", "choices" \in d.has,
                                  RenderChoices(d.choices, style), style),
                      RenderField("message", "message" \in d.has,
                                  RenderMessage(d.message, style), style),
                      RenderField("usage", "usage" \in d.has,
                                  RenderUsage(d.usage, style), style),
                      RenderField("error", "error" \in d.has,
                                  RenderLeaf(d.error, style), style)>>), style)
            \o <<"}">>

\* str(data)
Str(d) == PyStr(RenderData(d, "repr"))

\* json.dumps(error_data, indent=2)
JsonDumps(d) == RenderData(d, "json")

(***************************************************************************)
(* ChatCompletion.create: the interpretation of the response.  An outcome  *)
(* is [ok, value, error]: ok with the value computed, or not ok with the   *)
(* type of the exception raised.  TypeError, AttributeError and KeyError   *)
(* are not caught by create's "except (json.JSONDecodeError, ValueError)". *)
(***************************************************************************)
\* data[key], after `key in data` was true
Subscript(d, key) ==
    IF d.t = "dict" THEN Ok(d[key]) ELSE Fail("TypeError")

\* message.get('content', ''), message being the value of a "message" key
\* (or the {} default of .get('message', {}) when the key is absent)
MessageContent(m) ==
    CASE m.t = "absent" -> Ok(PyStr(<<>>))
      [] m.t = "dict"   -> IF m.content.t = "absent" THEN Ok(PyStr(<<>>)) ELSE Ok(m.content)
      [] OTHER          -> Fail("AttributeError")

\* 'choices' in data and len(data['choices']) > 0: "true", "false" or the
\* exception raised
ChoicesTest(d) ==
    IF "choices" \notin d.has THEN "false"
    ELSE IF d.t # "dict" THEN "TypeError"
    ELSE IF d.choices.t # "list" THEN "TypeError"
    ELSE IF d.choices.n > 0 THEN "true" ELSE "false"

\* data['choices'][0].get('message', {}).get('content', '')
FromChoices(d) ==
    IF d.choices.first.t # "dict" THEN Fail("AttributeError")
    ELSE MessageContent(d.choices.first.message)

\* The branches after "text" and "response": "choices", then "message"
\* (SFAssistClient only), then str(data).
FromLaterFields(v, d) ==
    IF ChoicesTest(d) \notin {"true", "false"} THEN Fail(ChoicesTest(d))
    ELSE IF ChoicesTest(d) = "true" THEN FromChoices(d)
    ELSE IF v = "sfassist" /\ "message" \in d.has
         THEN (IF d.t # "dict" THEN Fail("TypeError") ELSE MessageContent(d.message))
    ELSE Ok(Str(d))

\* A value that is empty: '' or None.
IsEmptyValue(val) == val = PyStr(<<>>) \/ val.t = "NoneType"

\* Mutant: a "text" or "response" that is present but empty is skipped.
ExtractContentNonEmpty(v, d) ==
    IF d.t \in {"int", "NoneType"} THEN Fail("TypeError")
    ELSE IF "text" \in d.has /\ (d.t # "dict" \/ ~IsEmptyValue(d.text))
         THEN Subscript(d, "text")
    ELSE IF "response" \in d.has /\ (d.t # "dict" \/ ~IsEmptyValue(d.response))
         THEN Subscript(d, "response")
    ELSE FromLaterFields(v, d)

\* Mutant: "response" is looked up before "text".
ExtractContentResponseFirst(v, d) ==
    IF d.t \in {"int", "NoneType"} THEN Fail("TypeError")
    ELSE IF "response" \in d.has THEN Subscript(d, "response")
    ELSE IF "text" \in d.has THEN Subscript(d, "text")
    ELSE FromLaterFields(v, d)

\* The if/elif chain that sets content.  `'text' in data` raises TypeError
\* when data is a number or None.
ExtractContent(v, d) ==
    IF d.t \in {"int", "NoneType"} THEN Fail("TypeError")
    ELSE IF "text" \in d.has THEN Subscript(d, "text")
    ELSE IF "response" \in d.has THEN Subscript(d, "response")
    ELSE FromLaterFields(v, d)

\* usage_data.get(key, 0)
Counter(val) == IF val.t = "absent" THEN PyInt(0) ELSE val

\* Mutant: a missing total_tokens is estimated as the sum of the other two.
ExtractUsageSummed(d) ==
    IF d.t # "dict" THEN Fail("AttributeError")
    ELSE IF d.usage.t = "absent" THEN Ok(ZeroUsage)
    ELSE IF d.usage.t # "dict" THEN Fail("AttributeError")
    ELSE Ok([prompt_tokens     |-> Counter(d.usage.prompt_tokens),
             completion_tokens |-> Counter(d.usage.completion_tokens),
             total_tokens      |->
                 IF d.usage.total_tokens.t = "absent"
                 THEN PyInt(Counter(d.usage.prompt_tokens).n
                            + Counter(d.usage.completion_tokens).n)
                 ELSE d.usage.total_tokens])

\* usage_data = data.get('usage', {}); UsageStats(prompt_tokens=..., ...)
ExtractUsage(d) ==
    IF d.t # "dict" THEN Fail("AttributeError")
    ELSE IF d.usage.t = "absent" THEN Ok(ZeroUsage)
    ELSE IF d.usage.t # "dict" THEN Fail("AttributeError")
    ELSE Ok([prompt_tokens     |-> Counter(d.usage.prompt_tokens),
             completion_tokens |-> Counter(d.usage.completion_tokens),
             total_tokens      |-> Counter(d.usage.total_tokens)])

\* Mutant: a body that is not JSON makes the call fail.
PlainTextStrict(body, st) == Raised("JSONDecodeError", <<>>)

\* The except branch of a 200: the raw body is the content, the usage is
\* UsageStats().
PlainText(body, st) ==
    IF st THEN Generator(PyStr(body.raw)) ELSE Completion(PyStr(body.raw), ZeroUsage)

\* The status 200 branch.
\* Mutant: SnowflakeCortexClient does not read "usage": its completions
\* always carry zero counters.
HandleOkCortexNoUsage(v, body, st) ==
    IF ~body.json THEN PlainText(body, st)
    ELSE LET c == ExtractContent(v, body.data)
             u == IF v = "cortex" THEN Ok(ZeroUsage) ELSE ExtractUsage(body.data)
         IN  IF ~c.ok THEN Raised(c.error, <<>>)
             ELSE IF st THEN Generator(c.value)
             ELSE IF ~u.ok THEN Raised(u.error, <<>>)
             ELSE Completion(c.value, u.value)

HandleOk(v, body, st) ==
    IF ~body.json THEN PlainText(body, st)
    ELSE LET c == ExtractContent(v, body.data)
             u == ExtractUsage(body.data)
         IN  IF ~c.ok THEN Raised(c.error, <<>>)
             ELSE IF st THEN Generator(c.value)
             ELSE IF ~u.ok THEN Raised(u.error, <<>>)
             ELSE Completion(c.value, u.value)

ErrorPrefix(v) ==
    IF v = "sfassist" THEN <<"API", " ", "Error", " ", "Response:", " ">>
    ELSE <<" ", "Error", " ", "Response:", " ">>

\* Mutant: the error is handed back as the text of a normal completion.
HandleErrorAsText(v, body) ==
    Completion(PyStr(ErrorPrefix(v) \o (IF body.json THEN JsonDumps(body.data) ELSE body.raw)),
               ZeroUsage)

\* Mutant: the error carries no body.
HandleErrorBare(v, body) == Raised("Exception", ErrorPrefix(v))

\* The else branch: raise Exception(prefix + json.dumps(error_data, indent=2)),
\* or prefix + response.text when the body is not JSON.
HandleError(v, body) ==
    Raised("Exception",
           ErrorPrefix(v) \o (IF body.json THEN JsonDumps(body.data) ELSE body.raw))

\* "if response.status_code == 200"
IsSuccess(status) == status = 200

Handle(v, resp, st) ==
    IF IsSuccess(resp.status) THEN HandleOk(v, resp.body, st)
    ELSE HandleError(v, resp.body)

\* Mutant: create uses its model argument in the payload.
RequestPayloadHint(v, self, model_arg, msgs) ==
    _build_payload(v, [self EXCEPT !.model = Some(model_arg)], msgs, None)

\* "payload = self.client._build_payload(messages)": the model argument is
\* not passed on.
RequestPayload(v, self, model_arg, msgs) == _build_payload(v, self, msgs, None)

\* f"{value}" for an optional string: None is formatted as "None".
Format(value) == IF value = None THEN "None" ELSE value[1]

\* Mutant: the Authorization header is made once, from the api_key the
\* client was constructed with, and reused for every request.
HeadersCached(self) ==
    [content_type  |-> "application/json; charset=utf-8",
     accept        |-> "application/json",
     api_key       |-> self.api_key,
     authorization |-> "Snowflake Token=\"" \o Format(config.api_key) \o "\""]

\* The headers of _make_request.
Headers(self) ==
    [content_type  |-> "application/json; charset=utf-8",
     accept        |-> "application/json",
     api_key       |-> self.api_key,
     authorization |-> "Snowflake Token=\"" \o Format(self.api_key) \o "\""]

\* Mutant: a failed call is sent again.
AfterResponseRetry(res) ==
    CASE res.kind = "completion" -> "returned"
      [] res.kind = "generator"  -> "gen_created"
      [] OTHER                   -> "request"

\* Where the call stands once the response is interpreted.
AfterResponse(res) ==
    CASE res.kind = "completion" -> "returned"
      [] res.kind = "generator"  -> "gen_created"
      [] OTHER                   -> "raised"

(***************************************************************************)
(* The steps of one create call.                                           *)
(***************************************************************************)
ModelArguments == {"gpt-4", "claude-4-sonnet"}

\* Mutant: _build_payload trims the caller's list in place: after the call
\* the list holds the system entry and the history that was sent.
CreateCallInPlace(model_arg, st) ==
    /\ pc = "idle"
    /\ model' = model_arg
    /\ stream' = st
    /\ payload' = RequestPayload(vendor, client, model_arg, messages)
    /\ messages' = payload'.query.prompt.messages
    /\ posts' = 0
    /\ response' = NoResponse
    /\ result' = NoResult
    /\ content' = PyNone /\ words' = <<>> /\ chunks' = <<>>
    /\ pc' = "request"
    /\ UNCHANGED <<config, vendor, client, system_message, sent>>

\* create(model, messages, stream) is entered: the payload is built.
CreateCall(model_arg, st) ==
    /\ pc = "idle"
    /\ model' = model_arg
    /\ stream' = st
    /\ payload' = RequestPayload(vendor, client, model_arg, messages)
    /\ posts' = 0
    /\ response' = NoResponse
    /\ result' = NoResult
    /\ content' = PyNone /\ words' = <<>> /\ chunks' = <<>>
    /\ pc' = "request"
    /\ UNCHANGED <<config, vendor, client, messages, system_message, sent>>

\* _make_request: requests.post(base_url, headers, json=payload,
\* verify=False, timeout=120).
MakeRequest ==
    /\ pc = "request"
    /\ posts' = posts + 1
    /\ sent' = Append(sent, [url     |-> client.base_url,
                             headers |-> Headers(client),
                             json    |-> payload,
                             verify  |-> FALSE,
                             timeout |-> 120,
                             model_argument |-> model,
                             messages_argument |-> messages])
    /\ pc' = "in_flight"
    /\ UNCHANGED <<config, vendor, client, messages, system_message, model, stream,
                   payload, response, result, content, words, chunks>>

\* The backend answers with a status and a body.
BackendReplies(bodies) ==
    /\ pc = "in_flight"
    /\ sent[Len(sent)].url # <<>>
    /\ \E status \in Statuses, body \in bodies :
          response' = [status |-> status, body |-> body]
    /\ pc' = "received"
    /\ UNCHANGED <<config, vendor, client, messages, system_message, model, stream,
                   payload, posts, sent, result, content, words, chunks>>

\* requests.post raises: no connection, or no answer within the timeout.
\* create has no handler for it.
TransportFails ==
    /\ pc = "in_flight"
    /\ sent[Len(sent)].url # <<>>
    /\ \E type \in {"ConnectionError", "Timeout"} : result' = Raised(type, <<>>)
    /\ pc' = "raised"
    /\ UNCHANGED <<config, vendor, client, messages, system_message, model, stream,
                   payload, posts, sent, response, content, words, chunks>>

\* The rest of create: the response is interpreted and create returns a
\* CompletionResponse or a generator, or raises.
HandleResponse ==
    /\ pc = "received"
    /\ result' = Handle(vendor, response, stream)
    /\ content' = IF result'.kind = "generator" THEN result'.content ELSE content
    /\ pc' = AfterResponse(result')
    /\ UNCHANGED <<config, vendor, client, messages, system_message, model, stream,
                   payload, posts, sent, response, words, chunks>>

\* The first pull of a generator whose content is no string:
\* content.split raises AttributeError.
GenRaise ==
    /\ pc = "gen_created"
    /\ content.t # "str"
    /\ result' = Raised("AttributeError", <<>>)
    /\ pc' = "gen_raised"
    /\ UNCHANGED <<config, vendor, client, messages, system_message, model, stream,
                   payload, posts, sent, response, content, words, chunks>>

(***************************************************************************)
(* SpecCreate: one create call, for every answer of the bounded sets.      *)
(***************************************************************************)
CallerLists == { MessageList(0, {}, {}), MessageList(2, {1}, {}) }

InitCreate ==
    /\ vendor \in Vendors
    /\ config = TheConfig
    /\ client = TheClient(vendor)
    /\ messages \in CallerLists
    /\ system_message = None
    /\ payload = NoPayload
    /\ CallAtRest /\ StreamAtRest
    /\ pc = "idle"

NextCreate ==
    \/ \E model_arg \in ModelArguments, st \in BOOLEAN : CreateCall(model_arg, st)
    \/ MakeRequest
    \/ BackendReplies(Bodies)
    \/ TransportFails
    \/ HandleResponse
    \/ GenRaise
    \/ GenFirst
    \/ GenNext
    \/ GenStop

SpecCreate == InitCreate /\ [][NextCreate]_vars

(***************************************************************************)
(* Properties of one create call.                                          *)
(***************************************************************************)
\* create is over: it has returned or raised (a returned generator may
\* have been pulled since).
CallOver ==
    pc \in {"returned", "raised", "gen_created", "gen_yielded", "gen_done", "gen_raised"}

\* create is over and had a response to interpret.
Answered == CallOver /\ response.status # 0

\* seq holds sub as a contiguous part.
Contains(seq, sub) ==
    \E i \in 0..(Len(seq) - Len(sub)) : SubSeq(seq, i + 1, i + Len(sub)) = sub

\* C4 as stated: for every HTTP 200 response, whatever its body, create
\* raises no error, the iteration of the chunks raises no error, and the
\* caller obtains a text (a string) as the completion content or as the
\* content that is streamed.
C4_Original ==
    (Answered /\ response.status = 200) =>
        /\ result.kind \in {"completion", "generator"}
        /\ result.content.t = "str"

\* C5: a 200 whose body does not parse as JSON, with stream false, returns
\* a completion whose text is the entire raw body and whose prompt_tokens,
\* completion_tokens and total_tokens are all zero.
C5_PlainTextFallback ==
    (Answered /\ response.status = 200 /\ ~response.body.json /\ ~stream) =>
        /\ pc = "returned"
        /\ result.kind = "completion"
        /\ result.content = PyStr(response.body.raw)
        /\ result.usage.prompt_tokens = PyInt(0)
        /\ result.usage.completion_tokens = PyInt(0)
        /\ result.usage.total_tokens = PyInt(0)

C5_Witness ==
    /\ pc = "returned" /\ ~stream
    /\ response.status = 200 /\ ~response.body.json
    /\ response.body.raw = <<"plain", " ", "text", " ", "reply">>
    /\ result.content.s = <<"plain", " ", "text", " ", "reply">>

\* The content of a "message" value: its "content", '' when it has none.
ContentOf(m) == IF m.content.t = "absent" THEN PyStr(<<>>) ELSE m.content

\* The text the priority order of C6 picks from a JSON object d; with_message
\* tells whether the order has the "message" step.
PriorityText(d, with_message) ==
    IF "text" \in d.has THEN d.text
    ELSE IF "response" \in d.has THEN d.response
    ELSE IF "choices" \in d.has /\ d.choices.n > 0
         THEN (IF d.choices.first.message.t = "absent" THEN PyStr(<<>>)
               ELSE ContentOf(d.choices.first.message))
    ELSE IF with_message /\ "message" \in d.has THEN ContentOf(d.message)
    ELSE PyStr(RenderData(d, "repr"))

\* A 200 whose body is a JSON object and from which create returned.
ObjectReturned ==
    /\ Answered /\ response.status = 200
    /\ response.body.json /\ response.body.data.t = "dict"
    /\ result.kind \in {"completion", "generator"}

\* C6 as stated: for both clients the text comes from one field, chosen in
\* the order "text", "response", first element of "choices", "message",
\* else the stringified structure.
C6_Original ==
    ObjectReturned => result.content = PriorityText(response.body.data, TRUE)

\* C6 as amended: the order is "text", "response", first element of
\* "choices", then for SFAssistClient only "message", else the stringified
\* structure; SnowflakeCortexClient has no "message" step.
C6_FieldPriority ==
    ObjectReturned =>
        result.content = PriorityText(response.body.data, vendor = "sfassist")

C6_Witness ==
    /\ ObjectReturned
    /\ response.body.data.has = {"text", "response"}
    /\ response.body.data.text = PyStr(<<"A", " ", "x">>)
    /\ response.body.data.response = PyStr(<<"B", " ", "x">>)
    /\ result.content = PyStr(<<"A", " ", "x">>)

C6_WitnessCortexMessage ==
    /\ ObjectReturned /\ vendor = "cortex"
    /\ response.body.data.has = {"message"}
    /\ response.body.data.message.content = PyStr(<<"M">>)
    /\ result.content = PyStr(<<"{", "'message':", " ", "{", "'content':", " ",
                                "'", "M", "'", "}", "}">>)

\* C7: for every response whose status is not 2xx, create raises an error
\* whose message holds the body as parsed and dumped JSON ("boom" for
\* {"error": "boom"}), or the raw body when it is not JSON, and returns
\* neither a completion nor a chunk sequence.
C7_ErrorCarriesBody ==
    (Answered /\ response.status \notin 200..299) =>
        /\ pc = "raised"
        /\ result.kind = "raised"
        /\ result.error.type = "Exception"
        /\ response.body.json =>
              Contains(result.error.message, JsonDumps(response.body.data))
        /\ (response.body.json /\ response.body.data.error = PyStr(<<"boom">>)) =>
              Contains(result.error.message, <<"boom">>)
        /\ ~response.body.json => Contains(result.error.message, response.body.raw)

C7_Witness ==
    /\ pc = "raised" /\ response.status = 500
    /\ response.body.json /\ response.body.data.has = {"error"}
    /\ Contains(result.error.message, <<"\"error\":", " ", "\"", "boom", "\"">>)

\* C8: each create call makes exactly one HTTP POST, whatever its outcome
\* (200, non-2xx, transport failure or timeout) and in either stream mode:
\* never a second one, and one once the call is over.
C8_ExactlyOnePost ==
    /\ posts <= 1
    /\ CallOver => posts = 1

C8_Witness ==
    /\ pc = "raised" /\ stream
    /\ result.error.type = "Timeout"
    /\ posts = 1

C8_WitnessStatus ==
    /\ pc = "raised" /\ response.status = 500 /\ posts = 1

\* C19: every failure of a create call is raised by create itself, in
\* either stream mode: when requests.post raises (no connection, no answer
\* within the timeout of 120) and when the status is not 2xx, create raises,
\* returns neither a completion nor a chunk sequence, and no chunk is
\* ever yielded; a chunk sequence exists only after a 200.
C19_FailuresRaisedInCreate ==
    /\ \A i \in 1..Len(sent) : sent[i].timeout = 120
    /\ (CallOver /\ response.status = 0) =>
          /\ pc = "raised" /\ result.kind = "raised"
          /\ result.error.type \in {"ConnectionError", "Timeout"}
          /\ chunks = <<>>
    /\ (Answered /\ response.status \notin 200..299) =>
          /\ pc = "raised" /\ result.kind = "raised"
          /\ chunks = <<>>
    /\ pc \in {"gen_created", "gen_yielded", "gen_done", "gen_raised"} =>
          response.status = 200

C19_Witness ==
    /\ pc = "raised" /\ stream
    /\ response.status = 404 /\ ~response.body.json
    /\ result.kind = "raised" /\ result.error.type = "Exception"
    /\ chunks = <<>>

C19_WitnessTransport ==
    /\ pc = "raised" /\ stream /\ response.status = 0
    /\ result.error.type = "ConnectionError"
    /\ sent[1].timeout = 120

\* The chunk sequence exists: create has returned the generator.
Streaming == pc \in {"gen_created", "gen_yielded", "gen_done", "gen_raised"}

\* What holds of every state of a streamed call: the generator exists only
\* once the one HTTP exchange is over; before the first pull nothing has
\* run (no word split, no chunk made); the chunks made never outnumber the
\* words of the text.
StreamingState ==
    /\ (Streaming \/ chunks # <<>>) =>
          /\ stream /\ posts = 1
          /\ response.status = 200
          /\ result.kind = "generator" \/ pc = "gen_raised"
    /\ pc = "gen_created" => (words = <<>> /\ chunks = <<>>)
    /\ (Streaming /\ content.t = "str") => Len(chunks) <= Len(Split(content.s))

\* What holds of every step of a streamed call: chunks are made by a pull
\* of the consumer only, one per pull, appended after those made before,
\* and no pull touches the HTTP exchange; once the sequence has ended (or
\* has raised) no step yields anything again.
StreamingStep ==
    /\ chunks' # chunks =>
          /\ pc \in {"gen_created", "gen_yielded"}
          /\ chunks' = Append(chunks, chunks'[Len(chunks')])
          /\ posts' = posts /\ sent' = sent /\ response' = response
    /\ pc \in {"gen_done", "gen_raised"} => (pc' = pc /\ chunks' = chunks)

\* When the consumer stops pulling, nothing is left to run: in a state
\* where the generator exists, only a pull can take a step.
NoPendingWork ==
    Streaming =>
        ~ENABLED (\/ \E model_arg \in ModelArguments, st \in BOOLEAN : CreateCall(model_arg, st)
                  \/ MakeRequest \/ BackendReplies(Bodies) \/ TransportFails
                  \/ HandleResponse)

\* C21: with stream true, the HTTP exchange is complete before the first
\* chunk exists; chunks are made one at a time, each by a pull of the
\* consumer, none ahead of the pull; the sequence is finite and yields
\* nothing once it has ended; a consumer that stops pulling leaves no step
\* to be taken.
C21_LazyStreaming ==
    /\ [](StreamingState /\ NoPendingWork)
    /\ [][StreamingStep]_vars

C21_Witness ==
    /\ pc = "gen_yielded" /\ stream
    /\ posts = 1 /\ response.status = 200
    /\ Len(words) = 3
    /\ Len(chunks) = 2
    /\ chunks = <<<<"plain">>, <<" ", "text">>>>

\* The content of the first element of "choices": '' when it has no
\* "message" or its "message" has no "content".
ChoicesContent(d) ==
    IF d.choices.first.message.t = "absent" THEN PyStr(<<>>)
    ELSE ContentOf(d.choices.first.message)

\* The text picked from a JSON object d when the fields are tried in
\* priority order and an empty result is skipped.
FirstNonEmptyText(d, with_message) ==
    IF "text" \in d.has /\ ~IsEmptyValue(d.text) THEN d.text
    ELSE IF "response" \in d.has /\ ~IsEmptyValue(d.response) THEN d.response
    ELSE IF "choices" \in d.has /\ d.choices.n > 0 /\ ~IsEmptyValue(ChoicesContent(d))
         THEN ChoicesContent(d)
    ELSE IF with_message /\ "message" \in d.has /\ ~IsEmptyValue(ContentOf(d.message))
         THEN ContentOf(d.message)
    ELSE PyStr(RenderData(d, "repr"))

\* C24 as stated: the fields are tried in priority order and the first
\* non-empty result wins; a field that is present but empty ("text": "",
\* an empty "choices" array) is skipped and the next field supplies the
\* text.
C24_Original ==
    ObjectReturned =>
        result.content = FirstNonEmptyText(response.body.data, vendor = "sfassist")

\* The text the fields after "choices" supply: the "message" content for
\* SFAssistClient when the object has a "message", else the stringified
\* object.
AfterChoices(d) ==
    IF vendor = "sfassist" /\ "message" \in d.has THEN ContentOf(d.message)
    ELSE PyStr(RenderData(d, "repr"))

\* C24 as amended: the fields are tried in priority order and the first
\* field that is present wins, whatever its value: a "text" or a
\* "response" that is present but empty (or null) is the text returned,
\* and so is the empty content of a first "choices" element; of the empty
\* values only an empty "choices" array is passed over, the next field
\* then supplying the text.
C24_PresentFieldWins ==
    ObjectReturned =>
        LET d == response.body.data
        IN  /\ ("text" \in d.has /\ IsEmptyValue(d.text)) => result.content = d.text
            /\ ("text" \notin d.has /\ "response" \in d.has /\ IsEmptyValue(d.response))
                  => result.content = d.response
            /\ ({"text", "response"} \cap d.has = {} /\ "choices" \in d.has) =>
                  /\ d.choices.n > 0 => result.content = ChoicesContent(d)
                  /\ d.choices.n = 0 => result.content = AfterChoices(d)

C24_Witness ==
    /\ ObjectReturned
    /\ response.body.data.has = {"text", "response"}
    /\ response.body.data.text = PyStr(<<>>)
    /\ response.body.data.response = PyStr(<<"B", " ", "x">>)
    /\ result.content = PyStr(<<>>)

C24_WitnessEmptyChoices ==
    /\ ObjectReturned /\ vendor = "sfassist"
    /\ response.body.data.has = {"choices", "message"}
    /\ response.body.data.choices.t = "list" /\ response.body.data.choices.n = 0
    /\ result.content = PyStr(<<"M">>)

\* What create makes of the same response in the other mode.
OtherMode == Handle(vendor, response, ~stream)

\* C25 as stated: for the same 200 body, the chunks of a stream=true call,
\* concatenated in order, are the text a stream=false call returns as its
\* completion, and the other way round.
C25_Original ==
    (Answered /\ response.status = 200) =>
        /\ pc = "gen_done" =>
              /\ OtherMode.kind = "completion"
              /\ OtherMode.content = PyStr(Concat(chunks))
        /\ pc = "returned" =>
              /\ OtherMode.kind = "generator"
              /\ OtherMode.content.t = "str"
              /\ Concat(AllChunks(Split(OtherMode.content.s))) = result.content.s

\* The other adapter.
OtherVendor(v) == IF v = "sfassist" THEN "cortex" ELSE "sfassist"

\* What the other adapter makes of the same response in the same mode.
OtherAdapter == Handle(OtherVendor(vendor), response, stream)

\* create is over and result is what it handed back or raised: no pull of
\* a returned generator has failed since.
Extracted == Answered /\ pc # "gen_raised"

\* C26 as stated: for every 200 body both adapters extract the same text
\* and the same usage counters (the same outcome of create).
C26_Original ==
    (Extracted /\ response.status = 200) => result = OtherAdapter

\* The extraction gets as far as the "message" step: the body has a
\* "message" but no "text", no "response" and no non-empty "choices".
ReachesMessage(d) ==
    /\ "message" \in d.has
    /\ {"text", "response"} \cap d.has = {}
    /\ ChoicesTest(d) = "false"

\* C26 as amended: for every 200 body whose extraction does not get as far
\* as the "message" step, both adapters have the same outcome: the same
\* text and the same usage counters, or the same error.
C26_SameExtraction ==
    (Extracted /\ response.status = 200 /\ ~ReachesMessage(response.body.data)) =>
        result = OtherAdapter

C26_Witness ==
    /\ pc = "returned" /\ vendor = "cortex" /\ response.status = 200
    /\ response.body.json /\ response.body.data.has = {"choices", "usage"}
    /\ result.content = PyStr(<<"C">>)
    /\ result.usage.prompt_tokens = PyInt(3)
    /\ result.usage.total_tokens = PyInt(7)
    /\ OtherAdapter = result

\* The bodies the adapters differ on: SFAssistClient returns the "message"
\* content, SnowflakeCortexClient the stringified body.
C26_WitnessMessage ==
    /\ pc = "returned" /\ vendor = "sfassist" /\ response.status = 200
    /\ ReachesMessage(response.body.data)
    /\ result.content = PyStr(<<"M">>)
    /\ OtherAdapter.content = PyStr(RenderData(response.body.data, "repr"))

\* C27 as stated: the outcome is a success exactly when the status is 2xx:
\* a status of 200..299 is never turned into the error of a failed
\* response, and every other status raises.
C27_Original ==
    Answered =>
        /\ response.status \in 200..299 => result.error.type # "Exception"
        /\ response.status \notin 200..299 => result.kind = "raised"

UsageKeys == {"prompt_tokens", "completion_tokens", "total_tokens"}

\* The counter the response holds under "usage" for key, zero when the
\* response has no "usage" or its "usage" has no such counter.
CounterFound(d, key) ==
    IF "usage" \in d.has /\ d.usage.t = "dict" /\ d.usage[key].t # "absent"
    THEN d.usage[key]
    ELSE PyInt(0)

C17_WitnessNoUsage ==
    /\ pc = "returned" /\ ~stream /\ response.status = 200
    /\ response.body.json
    /\ response.body.data.has = {"response"}
    /\ result.usage = ZeroUsage

(***************************************************************************)
(* SpecSession: several create calls on one client, one after the other.   *)
(***************************************************************************)
MaxCalls == 2      \* most create calls of one session

SessionConfigs ==
    { Config("params", FALSE, {}, Some(KEY), Some(URL), mdl) :
        mdl \in {None, Some("custom-model")} }

FewBodies ==
    { b \in Bodies :
        \/ ~b.json /\ b.raw = <<"plain", " ", "text", " ", "reply">>
        \/ b.json /\ b.data.t = "dict" /\ b.data.has = {"text"}
             /\ b.data.text \in {PyNone, PyStr(<<"A", " ", "x">>)} }

\* The caller goes on to its next call.
CallerContinues ==
    /\ CallOver
    /\ Len(sent) < MaxCalls
    /\ pc' = "idle"
    /\ model' = "" /\ stream' = FALSE /\ posts' = 0
    /\ payload' = NoPayload
    /\ response' = NoResponse /\ result' = NoResult
    /\ content' = PyNone /\ words' = <<>> /\ chunks' = <<>>
    /\ UNCHANGED <<config, vendor, client, messages, system_message, sent>>

\* The caller's lists: those of one call, and one whose history is longer
\* than the window of SnowflakeCortexClient.
SessionLists == CallerLists \cup { MessageList(HistoryWindow + 2, {1}, {}) }

InitSession ==
    /\ vendor \in Vendors
    /\ config \in SessionConfigs
    /\ client = __init__(vendor, config).value
    /\ messages \in SessionLists
    /\ system_message = None
    /\ payload = NoPayload
    /\ CallAtRest /\ StreamAtRest
    /\ pc = "idle"

NextSession ==
    \/ \E model_arg \in ModelArguments, st \in BOOLEAN : CreateCall(model_arg, st)
    \/ MakeRequest
    \/ BackendReplies(FewBodies)
    \/ TransportFails
    \/ HandleResponse
    \/ GenRaise
    \/ GenFirst
    \/ GenNext
    \/ GenStop
    \/ CallerContinues

SpecSession == InitSession /\ [][NextSession]_vars

\* The "model" of a payload: the flat string, or the name of the structure.
PayloadModel(p) == IF vendor = "cortex" THEN p.query.model.name ELSE p.query.model

\* C9: the model argument of create has no influence on the request: two
\* calls on the same client with the same messages send identical
\* payloads whatever their model arguments, and the model, application
\* code and application id of every payload sent are the client's.
C9_ModelArgumentIgnored ==
    /\ \A i \in 1..Len(sent) :
          /\ PayloadModel(sent[i].json) = client.model
          /\ sent[i].json.query.aplctn_cd = client.aplctn_cd
          /\ sent[i].json.query.app_id = client.app_id
    /\ \A i, j \in 1..Len(sent) :
          sent[i].messages_argument = sent[j].messages_argument
              => sent[i].json = sent[j].json

C9_Witness ==
    /\ Len(sent) = 2
    /\ client.model = Some("custom-model")
    /\ sent[1].model_argument = "gpt-4"
    /\ sent[2].model_argument = "claude-4-sonnet"
    /\ sent[1].json = sent[2].json
    /\ PayloadModel(sent[2].json) = Some("custom-model")

\* What a client constructed from the configuration sends for the
\* caller's list, whatever was called before.
FreshRequest ==
    LET self == __init__(vendor, config).value
    IN  [url     |-> self.base_url,
         headers |-> Headers(self),
         json    |-> _build_payload(vendor, self, messages, None)]

\* C18: no step of a create call, successful or failed, with or without
\* truncation of the history, changes the caller's message list or the
\* client's api_key, base_url, model, app_id and aplctn_cd; and after any
\* sequence of calls every request is the one a fresh client of the same
\* configuration sends for the same arguments, and what create returns or
\* raises is determined by the client class, the response and the stream
\* argument.
C18_CallLeavesInputs ==
    [][/\ messages' = messages
       /\ client' = client
       /\ \A i \in 1..Len(sent') :
             /\ sent'[i].messages_argument = messages
             /\ sent'[i].url = FreshRequest.url
             /\ sent'[i].headers = FreshRequest.headers
             /\ sent'[i].json = FreshRequest.json
       /\ (Answered /\ pc # "gen_raised")' =>
             result' = Handle(vendor, response', stream')]_vars

C18_Witness ==
    /\ Len(sent) = 2 /\ pc = "raised"
    /\ vendor = "cortex"
    /\ Len(messages) = HistoryWindow + 2
    /\ messages = MessageList(HistoryWindow + 2, {1}, {})
    /\ Len(sent[2].json.query.prompt.messages) = HistoryWindow + 1
    /\ sent[1].json = sent[2].json
    /\ client = __init__(vendor, config).value

(***************************************************************************)
(* SpecReconfigure: a session whose client is reconfigured between calls.  *)
(* The reconfiguration operation has exclusive access to the instance: it  *)
(* runs when no call on the instance is under way.                         *)
(***************************************************************************)
KEY2 == "key-2"

\* The credentials, endpoint and model a reconfiguration brings.
NewCredentials ==
    { [api_key |-> Some(k), base_url |-> URL, model |-> Some("custom-model")] :
        k \in {KEY, KEY2} }

\* reconfigure(new): the instance takes the new credentials, endpoint and
\* model.
Reconfigure(new) ==
    /\ pc = "idle"
    /\ client' = [client EXCEPT !.api_key  = new.api_key,
                                !.base_url = RStripSlash(new.base_url),
                                !.model    = new.model]
    /\ UNCHANGED <<config, vendor, messages, system_message, model, stream, payload,
                   posts, sent, response, result, content, words, chunks, pc>>

InitReconfigure ==
    /\ vendor \in Vendors
    /\ config = TheConfig
    /\ client = TheClient(vendor)
    /\ messages \in CallerLists
    /\ system_message = None
    /\ payload = NoPayload
    /\ CallAtRest /\ StreamAtRest
    /\ pc = "idle"

NextReconfigure ==
    \/ \E new \in NewCredentials : Reconfigure(new)
    \/ \E model_arg \in ModelArguments, st \in BOOLEAN : CreateCall(model_arg, st)
    \/ MakeRequest
    \/ BackendReplies(FewBodies)
    \/ TransportFails
    \/ HandleResponse
    \/ GenRaise
    \/ GenFirst
    \/ GenNext
    \/ GenStop
    \/ CallerContinues

SpecReconfigure == InitReconfigure /\ [][NextReconfigure]_vars

\* The api keys the instance has been configured with or can be given.
ConfiguredKeys == {Some(KEY), Some(KEY2)}

ApiKeys == {None, Some(""), Some(KEY)}

BaseUrls == {None, Some(<<>>), Some(<<"/">>), Some(URL),
             Some(<<"https:", "/", "/", "gateway">>),
             Some(<<"https:", "/", "/", "gateway", "/", "/">>)}

Models == {None, Some(""), Some("custom-model")}

\* A dict or an object whose keys are exactly keys; a key that does not
\* exist has no value.
Sourced(form, section, keys, api_key, base_url, mdl) ==
    Config(form, section, keys,
           IF "api_key" \in keys THEN api_key ELSE None,
           IF "base_url" \in keys THEN base_url ELSE None,
           IF "model" \in keys THEN mdl ELSE None)

\* Every combination of api_key and base_url in every form, and for the
\* usable credentials every model and the application identifiers.
Configs ==
    { Config("params", FALSE, {}, k, u, None) : k \in ApiKeys, u \in BaseUrls }
    \cup { Config("params", FALSE, {}, Some(KEY), Some(URL), m) : m \in Models }
    \cup { Sourced("factory", FALSE, keys \cup {"api_key", "base_url"}, Some(KEY), Some(URL), m) :
             keys \in {{}, {"model"}}, m \in Models }
    \cup { Sourced(form, section, keys, k, u, None) :
             form \in {"dict", "object"}, section \in BOOLEAN,
             keys \in SUBSET {"api_key", "base_url"},
             k \in ApiKeys, u \in BaseUrls }
    \cup { Sourced(form, section, keys \cup {"api_key", "base_url"}, Some(KEY), Some(URL), m) :
             form \in {"dict", "object"}, section \in BOOLEAN,
             keys \in {{"model"}, {"model", "app_id", "aplctn_cd"}, {"app_id"}},
             m \in Models }

\* The client is constructed: __init__ returns, or raises.
Construct ==
    /\ pc = "unconstructed"
    /\ LET made == NewClient(vendor, config)
       IN  IF made.ok
           THEN client' = made.value /\ result' = result /\ pc' = "idle"
           ELSE client' = client /\ result' = Raised(made.error, <<>>)
                /\ pc' = "init_raised"
    /\ UNCHANGED <<config, vendor, messages, system_message, model, stream,
                   payload, posts, sent, response, content, words, chunks>>

\* requests.post raises MissingSchema for an empty url, before anything is
\* sent; create has no handler for it.
SchemeMissing ==
    /\ pc = "in_flight"
    /\ sent[Len(sent)].url = <<>>
    /\ result' = Raised("MissingSchema", <<>>)
    /\ pc' = "raised"
    /\ UNCHANGED <<config, vendor, client, messages, system_message, model, stream,
                   payload, posts, sent, response, content, words, chunks>>

InitConfig ==
    /\ vendor \in Vendors
    /\ config \in Configs
    /\ client = NoClient
    /\ messages \in CallerLists
    /\ system_message = None
    /\ payload = NoPayload
    /\ CallAtRest /\ StreamAtRest
    /\ pc = "unconstructed"

NextConfig ==
    \/ Construct
    \/ \E model_arg \in ModelArguments, st \in BOOLEAN : CreateCall(model_arg, st)
    \/ MakeRequest
    \/ SchemeMissing
    \/ BackendReplies(FewBodies)
    \/ TransportFails
    \/ HandleResponse
    \/ GenRaise
    \/ GenFirst
    \/ GenNext
    \/ GenStop

SpecConfig == InitConfig /\ [][NextConfig]_vars

\* The client exists: __init__ has returned.
Constructed == pc \notin {"unconstructed", "init_raised"}

\* What the configuration supplies for key: None when it supplies nothing.
Supplied(cfg, key) ==
    IF cfg.form = "params" \/ key \in cfg.keys THEN cfg[key] ELSE None

\* api_key or base_url is absent, None or empty in the configuration.
MissingCredentials ==
    \/ Falsy(Supplied(config, "api_key"))
    \/ Supplied(config, "base_url") \in {None, Some(<<>>)}

\* C11 as stated: a construction with api_key or base_url absent, None or
\* empty fails at construction, in every configuration form; no client
\* with an empty api_key or an empty base_url exists, and no request is
\* posted with an empty api key or to an empty url.
C11_Original ==
    /\ (pc # "unconstructed" /\ MissingCredentials) => pc = "init_raised"
    /\ Constructed => (~Falsy(client.api_key) /\ client.base_url # <<>>)
    /\ \A i \in 1..Len(sent) :
          ~Falsy(sent[i].json.query.api_key) /\ sent[i].url # <<>>

\* url ends with the path separator.
EndsWithSlash(url) == Len(url) > 0 /\ url[Len(url)] = "/"

\* C16: whatever the configuration form and the base_url given, the
\* base_url of a constructed client never ends with '/', in every state
\* the client goes through, and no request is posted to a url ending
\* with '/'.
C16_NoTrailingSlash ==
    /\ Constructed => ~EndsWithSlash(client.base_url)
    /\ \A i \in 1..Len(sent) : ~EndsWithSlash(sent[i].url)

C16_Witness ==
    /\ pc = "returned"
    /\ config.form = "object" /\ config.section
    /\ config.base_url = Some(<<"https:", "/", "/", "gateway", "/", "/">>)
    /\ client.base_url = <<"https:", "/", "/", "gateway">>
    /\ sent[1].url = <<"https:", "/", "/", "gateway">>

\* The configuration names no model: the key or attribute does not exist,
\* the model parameter is left at None, the factory is called without one.
NoModelConfigured ==
    IF config.form = "params" THEN config.model = None
    ELSE "model" \notin config.keys

\* The model of a client of class v constructed from api_key and base_url
\* alone.
ParameterDefault(v) ==
    __init__(v, Config("params", FALSE, {}, Some(KEY), Some(URL), None)).value.model

\* C22 as stated: a client built without a model has the one default model
\* of its class, the same in every configuration form (dict with vendor
\* section, root-level dict, attribute object, explicit parameters,
\* factory function).
C22_Original ==
    (Constructed /\ NoModelConfigured) => client.model = ParameterDefault(vendor)

====
